---- MODULE Spec2Model ----
(***************************************************************************)
(* Model of main.py of telegram-url-monitor: the periodic sweep            *)
(* check_all_urls, the /add and /remove command handlers, the three JSON   *)
(* files they share (urls.json, url_hashes.json, url_html_snapshots.json)  *)
(* and the pages the monitored sites serve.                                *)
(*                                                                         *)
(* The handlers are coroutines of one asyncio event loop.  Control leaves  *)
(* a handler only at an await (fetch_page_data, send_message, reply_text); *)
(* the code between two awaits runs without interleaving.  The model keeps *)
(* one step per await-to-await stretch and, so that a process crash can    *)
(* fall between two file writes, one step per save_json call; while a      *)
(* handler is between two of its save_json calls no other handler runs.    *)
(* A handler's return is a step of its own, so that the state it leaves    *)
(* behind can be looked at before its locals are dropped.                  *)
(***************************************************************************)
EXTENDS Naturals, Sequences, FiniteSets, TLC

\* ---------------------------------------------------------------- bounds
\* sweeps started, commands that get past their first check, and crashes
MaxOps == 4

\* ------------------------------------------------------------ input sets
Labels == {"a", "b"}
URLs == {"u1", "u2"}

None == "None"      \* Python's None

\* A rendered page: what page.inner_text("body") and page.content() return.
\* Two of the pages show the same text under different markup, one has an
\* empty body.
Pages ==
  { [text |-> "",  html |-> "<h0>"],
    [text |-> "A", html |-> "<h1>"],
    [text |-> "A", html |-> "<h2>"],
    [text |-> "B", html |-> "<h3>"] }

\* no page: the (None, None) of line 63
NoPage == [text |-> None, html |-> None]

\* hashlib.sha256(text.encode()).hexdigest(), by its leading hex digits
sha256(text) ==
  CASE text = ""  -> "e3b0c442"
    [] text = "A" -> "559aead0"
    [] text = "B" -> "df7e70e5"

\* Python truthiness of an Optional[str]: `not x`
Not(x) == x = None \/ x = ""

\* ------------------------------------------------------- Python dicts
\* urls is iterated (urls.items()), so it keeps Python's insertion order:
\* a sequence of [label, url] entries.  hashes and htmls are only read by
\* key, set and popped: a function on Labels, None where the key is absent.
EmptyUrls == << >>
EmptyMap == [l \in Labels |-> None]

HasLabel(urls, label) == \E i \in 1..Len(urls) : urls[i].label = label

\* urls[label] = url  (label not yet a key: appended)
SetUrl(urls, label, url) ==
  IF HasLabel(urls, label)
    THEN [i \in 1..Len(urls) |->
            IF urls[i].label = label THEN [label |-> label, url |-> url] ELSE urls[i]]
    ELSE Append(urls, [label |-> label, url |-> url])

\* `del` of the oldest entry, whatever its label
DelUrlFirst(urls, label) == Tail(urls)

\* del urls[label]
DelUrl(urls, label) == SelectSeq(urls, LAMBDA e : e.label # label)

\* ------------------------------------------------------------- files
\* A file is [ok, data]: ok is FALSE when the file holds no parseable JSON
\* (truncated by open(filename, 'w') and not yet rewritten in full).
File(data) == [ok |-> TRUE, data |-> data]
Corrupt(empty) == [ok |-> FALSE, data |-> empty]

\* load_json: the parsed file, {} when missing or unparseable.  `empty` is
\* the model's value for {} of the file's dict type.
load_json(file, empty) == IF file.ok THEN file.data ELSE empty

\* what load_json writes to stdout or to a log: neither the except branch
\* (lines 30-31) nor the missing-file branch (line 32) prints anything
load_json_prints(file) == {}

\* save_json: the file afterwards
save_json(data) == File(data)

\* fetch_page_data: (body_text, full_html) of the page the site serves at
\* that moment (pg, any page: the site may publish another one between any
\* two fetches), (None, None) on any exception
fetch_page_data(pg, ok) ==
  IF ok THEN [text |-> pg.text, html |-> pg.html]
        ELSE NoPage

VARIABLES
  \* --- durable state
  urlFile,      \* urls.json
  hashFile,     \* url_hashes.json
  htmlFile,     \* url_html_snapshots.json
  \* --- check_all_urls (the job)
  swPc,         \* "idle", "fetch", "send", "save_hash", "save_html",
                \* "done" (returning), "aborted" (an exception left the job)
  swUrls,       \* urls, loaded at line 67
  swIdx,        \* position of the for loop in swUrls
  swHashes,     \* hashes (line 68, mutated at line 80)
  swHtmls,      \* htmls (line 69, mutated at line 93)
  \* --- the command handler in progress
  cmdPc,        \* "idle", "add_fetch", "add_save_url", ..., "rm_save_html",
                \* "reply" (the handler's last reply_text)
  cmdLabel, cmdUrl,
  cmdUrls, cmdHashes, cmdHtmls,
  reply,        \* the text of that reply
  \* --- history of the sweep in progress
  outcome,      \* per label, what this sweep's fetch of it came to
  startHash,    \* hashes as loaded when this sweep started
  startHtml,    \* htmls as loaded when this sweep started
  attempted,    \* labels for which this sweep called send_message
  notified,     \* per label, send_message calls of this sweep that returned
  repeated,     \* labels whose fetch returned the text of their previous fetch
  touched,      \* labels a command wrote while this sweep was running
  swFirst,      \* per label for which this sweep is the first since its add,
                \* the text that add fetched
  \* --- history across sweeps
  recorded,     \* labels whose change the last sweep wrote to url_hashes.json
  reg,          \* per label, progress of its registration
  lastText,     \* per label, text of its latest successful fetch
  fresh,        \* per label added since the last sweep started, the text
                \* its add fetched
  unalerted,    \* labels whose change a sweep wrote with no send_message call
  crashed,      \* the process crashed since the last sweep started
  raced,        \* a command has written the files while a sweep was running
  \* --- the monitored sites
  page,         \* the page they serve to every fetch from now on; NoPage
                \* while they may serve any page, or none, to each fetch
  ops

durable == <<urlFile, hashFile, htmlFile>>
swVars == <<swPc, swUrls, swIdx, swHashes, swHtmls>>
cmdVars == <<cmdPc, cmdLabel, cmdUrl, cmdUrls, cmdHashes, cmdHtmls, reply>>
swHist == <<outcome, startHash, startHtml, attempted, notified, repeated,
            swFirst, recorded, unalerted>>
vars == <<urlFile, hashFile, htmlFile, swPc, swUrls, swIdx, swHashes, swHtmls,
          cmdPc, cmdLabel, cmdUrl, cmdUrls, cmdHashes, cmdHtmls, reply,
          outcome, startHash, startHtml, attempted, notified, repeated,
          touched, swFirst, recorded, unalerted, reg, lastText, fresh,
          crashed, raced, page, ops>>

NoOutcome == [l \in Labels |-> "none"]
NoNotes == [l \in Labels |-> 0]

\* The files are as a fresh checkout has them (none), or as an earlier run
\* left them after `/add a u1` fetched the page of text "A".
Init ==
  /\ \/ /\ urlFile = File(EmptyUrls)
        /\ hashFile = File(EmptyMap)
        /\ htmlFile = File(EmptyMap)
        /\ reg = [l \in Labels |-> "none"]
        /\ lastText = [l \in Labels |-> None]
        /\ fresh = EmptyMap
     \/ /\ urlFile = File(SetUrl(EmptyUrls, "a", "u1"))
        /\ hashFile = File([EmptyMap EXCEPT !["a"] = sha256("A")])
        /\ htmlFile = File([EmptyMap EXCEPT !["a"] = "<h1>"])
        /\ reg = [l \in Labels |-> IF l = "a" THEN "added" ELSE "none"]
        /\ lastText = [l \in Labels |-> IF l = "a" THEN "A" ELSE None]
        /\ fresh = [EmptyMap EXCEPT !["a"] = "A"]
  /\ swPc = "idle" /\ swUrls = EmptyUrls /\ swIdx = 1
  /\ swHashes = EmptyMap /\ swHtmls = EmptyMap
  /\ cmdPc = "idle" /\ cmdLabel = None /\ cmdUrl = None
  /\ cmdUrls = EmptyUrls /\ cmdHashes = EmptyMap /\ cmdHtmls = EmptyMap
  /\ reply = None
  /\ outcome = NoOutcome /\ startHash = EmptyMap /\ startHtml = EmptyMap
  /\ attempted = {} /\ notified = NoNotes /\ repeated = {}
  /\ touched = {} /\ swFirst = EmptyMap /\ recorded = {}
  /\ unalerted = {}
  /\ crashed = FALSE /\ raced = FALSE /\ ops = 0
  /\ page = NoPage

\* what a fetch can meet: the pages the site may serve, and whether the
\* browser gets one
Served == IF page = NoPage THEN Pages ELSE {page}
Reached == IF page = NoPage THEN BOOLEAN ELSE {TRUE}

\* A handler between two of its save_json calls, or returning: no await is
\* left in it that another handler's effect could follow.
SweepSync == swPc \in {"save_hash", "save_html", "done", "aborted"}
CmdSync == cmdPc \in {"add_save_url", "add_save_hash", "add_save_html",
                      "rm_save_url", "rm_save_hash", "rm_save_html", "reply"}

\* ------------------------------------------------------ check_all_urls
\* the loop reading urls.json again at each iteration, instead of walking
\* the dict loaded at line 67
CurLabelLive ==
  LET urls == load_json(urlFile, EmptyUrls)
  IN IF swIdx <= Len(urls) THEN urls[swIdx].label ELSE swUrls[swIdx].label

\* `for label, url in urls.items()` (line 71): the label at hand
CurLabel == swUrls[swIdx].label

\* the test add makes of its own fetch, `if not html` (line 136), in the
\* place of line 74's: a page with an empty body passes for fetched
FetchFailedAsInAdd(r) == Not(r.html)

\* `if not text or not html` (line 74)
FetchFailed(r) == Not(r.text) \/ Not(r.html)

\* line 82 reading hashes[label] back after line 80 has overwritten it,
\* instead of old_hash: never a change
ChangedAfterStore(new_hash, old_hash) == new_hash # new_hash

\* `if new_hash != old_hash` (line 82)
Changed(new_hash, old_hash) == new_hash # old_hash

\* What the fetch of a label brought, whatever the sweep makes of it: no
\* page ("failed"), a page with an empty body ("empty"), the first text seen
\* for the label ("nobase"), the stored text ("same") or another ("changed").
Outcome(r, old_hash) ==
  CASE r.text = None -> "failed"
    [] r.text = "" -> "empty"
    [] r.text \notin {None, ""} /\ old_hash = None -> "nobase"
    [] r.text \notin {None, ""} /\ old_hash # None ->
         IF sha256(r.text) = old_hash THEN "same" ELSE "changed"

\* m[label] is the text the add of label fetched, as long as every page
\* fetched for label since has shown that text
SinceAdd(m, label, r) ==
  IF r.text # None /\ m[label] \notin {None, r.text}
    THEN [m EXCEPT ![label] = None]
    ELSE m

\* the for loop moves on: the next fetch, or the saves after the loop
NextPc(idx, urls) == IF idx + 1 > Len(urls) THEN "save_hash" ELSE "fetch"

\* lines 67-73: the three loads, up to the first await of fetch_page_data
SweepLoad ==
  /\ swPc = "idle" /\ ~CmdSync
  /\ swUrls' = load_json(urlFile, EmptyUrls)
  /\ swHashes' = load_json(hashFile, EmptyMap)
  /\ swHtmls' = load_json(htmlFile, EmptyMap)
  /\ swIdx' = 1
  /\ swPc' = IF Len(swUrls') = 0 THEN "save_hash" ELSE "fetch"
  /\ startHash' = swHashes' /\ startHtml' = swHtmls'
  /\ swFirst' = fresh /\ fresh' = EmptyMap
  /\ recorded' = {} /\ crashed' = FALSE
  /\ UNCHANGED <<durable, cmdVars, outcome, attempted, notified, repeated,
                 touched, unalerted, reg, lastText, raced, page>>

\* line 207: the JobQueue runs the job, one of the MaxOps steps counted
SweepStart ==
  /\ ops < MaxOps
  /\ ops' = ops + 1
  /\ SweepLoad

\* line 207: the JobQueue runs the job, every interval and without end
SweepAgain ==
  /\ SweepLoad
  /\ UNCHANGED ops

\* lines 73-98: fetch_page_data returns; hash, compare, and on a change the
\* snapshot is replaced and send_message is called (the next await)
SweepFetch ==
  /\ swPc = "fetch" /\ ~CmdSync
  /\ \E pg \in Served, ok \in Reached :
       LET r == fetch_page_data(pg, ok)
           label == CurLabel
           new_hash == sha256(r.text)
           old_hash == swHashes[label]
       IN /\ IF FetchFailed(r)
               THEN /\ swIdx' = swIdx + 1
                    /\ swPc' = NextPc(swIdx, swUrls)
                    /\ UNCHANGED <<swHashes, swHtmls, attempted, lastText, repeated>>
               ELSE /\ swHashes' = [swHashes EXCEPT ![label] = new_hash]
                    /\ lastText' = [lastText EXCEPT ![label] = r.text]
                    /\ repeated' = IF lastText[label] = r.text
                                     THEN repeated \cup {label} ELSE repeated
                    /\ IF Changed(new_hash, old_hash)
                         THEN /\ swHtmls' = [swHtmls EXCEPT ![label] = r.html]
                              /\ attempted' = attempted \cup {label}
                              /\ swPc' = "send"
                              /\ UNCHANGED swIdx
                         ELSE /\ swIdx' = swIdx + 1
                              /\ swPc' = NextPc(swIdx, swUrls)
                              /\ UNCHANGED <<swHtmls, attempted>>
          /\ outcome' = [outcome EXCEPT ![label] = Outcome(r, old_hash)]
          /\ fresh' = SinceAdd(fresh, label, r)
          /\ swFirst' = SinceAdd(swFirst, label, r)
  /\ UNCHANGED <<durable, swUrls, cmdVars, startHash, startHtml, notified,
                 touched, recorded, unalerted, reg, ops, crashed, raced, page>>

\* lines 94-102: send_message returns, the diff file is written, the loop
\* goes on
SweepSendOk ==
  /\ swPc = "send" /\ ~CmdSync
  /\ notified' = [notified EXCEPT ![CurLabel] = @ + 1]
  /\ swIdx' = swIdx + 1
  /\ swPc' = NextPc(swIdx, swUrls)
  /\ UNCHANGED <<durable, swUrls, swHashes, swHtmls, cmdVars, outcome,
                 startHash, startHtml, attempted, repeated, touched, swFirst,
                 recorded, unalerted, reg, lastText, fresh, ops, crashed, raced, page>>

\* lines 94-98: send_message raises (network error, Markdown the label
\* breaks, ...); nothing in check_all_urls catches it, the job ends there
SweepSendFail ==
  /\ swPc = "send" /\ ~CmdSync
  /\ swPc' = "aborted"
  /\ UNCHANGED <<durable, swUrls, swIdx, swHashes, swHtmls, cmdVars, outcome,
                 startHash, startHtml, attempted, notified, repeated, touched,
                 swFirst, recorded, unalerted, reg, lastText, fresh, ops,
                 crashed, raced, page>>

\* lines 100-102: send_message returned, open() of the diff file raises;
\* nothing catches it either
SweepDiffFail ==
  /\ swPc = "send" /\ ~CmdSync
  /\ notified' = [notified EXCEPT ![CurLabel] = @ + 1]
  /\ swPc' = "aborted"
  /\ UNCHANGED <<durable, swUrls, swIdx, swHashes, swHtmls, cmdVars, outcome,
                 startHash, startHtml, attempted, repeated, touched, swFirst,
                 recorded, unalerted, reg, lastText, fresh, ops, crashed, raced, page>>

\* line 107: save_json(HASH_FILE, hashes)
SweepSaveHash ==
  /\ swPc = "save_hash"
  /\ hashFile' = save_json(swHashes)
  /\ recorded' = {l \in Labels : outcome[l] \in {"nobase", "changed"}}
  /\ unalerted' = unalerted \cup (recorded' \ attempted)
  /\ swPc' = "save_html"
  /\ UNCHANGED <<urlFile, htmlFile, swUrls, swIdx, swHashes, swHtmls, cmdVars,
                 outcome, startHash, startHtml, attempted, notified, repeated,
                 touched, swFirst, reg, lastText, fresh, ops, crashed, raced, page>>

\* lines 108-110: save_json(HTML_FILE, htmls); commit_and_push_changes only
\* mirrors the two files to the remote and swallows its own errors
SweepSaveHtml ==
  /\ swPc = "save_html"
  /\ htmlFile' = save_json(swHtmls)
  /\ swPc' = "done"
  /\ UNCHANGED <<urlFile, hashFile, swUrls, swIdx, swHashes, swHtmls, cmdVars,
                 outcome, startHash, startHtml, attempted, notified, repeated,
                 touched, swFirst, recorded, unalerted, reg, lastText, fresh, ops,
                 crashed, raced, page>>

SweepLocalsGone ==
  /\ swUrls' = EmptyUrls /\ swIdx' = 1
  /\ swHashes' = EmptyMap /\ swHtmls' = EmptyMap
  /\ outcome' = NoOutcome /\ startHash' = EmptyMap /\ startHtml' = EmptyMap
  /\ attempted' = {} /\ notified' = NoNotes /\ repeated' = {}
  /\ touched' = {} /\ swFirst' = EmptyMap

\* the job is over, by return or by the exception: the JobQueue runs the
\* next one at its interval (line 207)
SweepReturn ==
  /\ swPc \in {"done", "aborted"}
  /\ swPc' = "idle"
  /\ SweepLocalsGone
  /\ recorded' = {}
  /\ UNCHANGED <<durable, cmdVars, unalerted, reg, lastText, fresh, ops, crashed, raced, page>>

check_all_urls ==
  \/ SweepStart \/ SweepFetch \/ SweepSendOk \/ SweepSendFail
  \/ SweepDiffFail \/ SweepSaveHash \/ SweepSaveHtml \/ SweepReturn

\* ------------------------------------------------------------ commands
CmdLocalsGone ==
  /\ cmdLabel' = None /\ cmdUrl' = None
  /\ cmdUrls' = EmptyUrls /\ cmdHashes' = EmptyMap /\ cmdHtmls' = EmptyMap

\* a command writes label's records while a sweep is running
Touch(label) == IF swPc = "idle" THEN touched ELSE touched \cup {label}

\* add, lines 124-127 and remove, lines 153-156: too few arguments
CmdUsage ==
  /\ cmdPc = "idle" /\ ~SweepSync
  /\ \E r \in {"Usage: /add [label] [url]", "Usage: /remove [label]"} : reply' = r
  /\ cmdPc' = "reply"
  /\ UNCHANGED <<durable, swVars, swHist, cmdLabel, cmdUrl, cmdUrls,
                 cmdHashes, cmdHtmls, touched, reg, lastText, fresh, ops, crashed, raced, page>>

\* `label in urls.values()` in the place of line 131's test: the label is
\* looked for among the urls
DuplicateByValue(urls, label) == \E i \in 1..Len(urls) : urls[i].url = label

\* `if label in urls` (line 131)
Duplicate(urls, label) == HasLabel(urls, label)

\* add, lines 129-135: the duplicate check, up to the await of the fetch
AddStart(label, url) ==
  /\ cmdPc = "idle" /\ ~SweepSync
  /\ LET urls == load_json(urlFile, EmptyUrls)
     IN /\ cmdLabel' = label /\ cmdUrl' = url /\ cmdUrls' = urls
        /\ IF Duplicate(urls, label)
             THEN /\ reply' = "Label already exists."
                  /\ cmdPc' = "reply"
                  /\ UNCHANGED ops
             ELSE /\ ops < MaxOps
                  /\ ops' = ops + 1
                  /\ cmdPc' = "add_fetch"
                  /\ UNCHANGED reply
  /\ UNCHANGED <<durable, swVars, swHist, cmdHashes, cmdHtmls, touched,
                 reg, lastText, fresh, crashed, raced, page>>

\* add, lines 135-144: the fetch returns; the three dicts are built
AddFetch ==
  /\ cmdPc = "add_fetch" /\ ~SweepSync
  /\ \E pg \in Served, ok \in Reached :
       LET r == fetch_page_data(pg, ok)
       IN IF Not(r.html)
            THEN /\ reply' = "Couldn't fetch page."
                 /\ cmdPc' = "reply"
                 /\ UNCHANGED <<cmdLabel, cmdUrl, cmdUrls, cmdHashes, cmdHtmls,
                                touched, raced, reg, lastText>>
            ELSE /\ cmdUrls' = SetUrl(cmdUrls, cmdLabel, cmdUrl)
                 /\ cmdHashes' = [load_json(hashFile, EmptyMap)
                                    EXCEPT ![cmdLabel] = sha256(r.text)]
                 /\ cmdHtmls' = [load_json(htmlFile, EmptyMap)
                                    EXCEPT ![cmdLabel] = r.html]
                 /\ cmdPc' = "add_save_url"
                 /\ touched' = Touch(cmdLabel)
                 /\ raced' = (raced \/ swPc # "idle")
                 /\ reg' = [reg EXCEPT ![cmdLabel] =
                              IF @ \in {"removed", "readded"} THEN "readding"
                                                              ELSE "adding"]
                 /\ lastText' = [lastText EXCEPT ![cmdLabel] = r.text]
                 /\ UNCHANGED <<reply, cmdLabel, cmdUrl>>
  /\ UNCHANGED <<durable, swVars, swHist, fresh, ops, crashed, page>>

\* add, line 146
AddSaveUrl ==
  /\ cmdPc = "add_save_url"
  /\ urlFile' = save_json(cmdUrls)
  /\ cmdPc' = "add_save_hash"
  /\ UNCHANGED <<hashFile, htmlFile, swVars, swHist, cmdLabel, cmdUrl,
                 cmdUrls, cmdHashes, cmdHtmls, reply, touched, reg, lastText,
                 fresh, ops, crashed, raced, page>>

\* add, line 147
AddSaveHash ==
  /\ cmdPc = "add_save_hash"
  /\ hashFile' = save_json(cmdHashes)
  /\ cmdPc' = "add_save_html"
  /\ UNCHANGED <<urlFile, htmlFile, swVars, swHist, cmdLabel, cmdUrl,
                 cmdUrls, cmdHashes, cmdHtmls, reply, touched, reg, lastText,
                 fresh, ops, crashed, raced, page>>

\* add, lines 148-150
AddSaveHtml ==
  /\ cmdPc = "add_save_html"
  /\ htmlFile' = save_json(cmdHtmls)
  /\ reply' = "Now tracking"
  /\ reg' = [reg EXCEPT ![cmdLabel] = IF @ = "readding" THEN "readded" ELSE "added"]
  /\ fresh' = [fresh EXCEPT ![cmdLabel] = lastText[cmdLabel]]
  /\ cmdPc' = "reply"
  /\ UNCHANGED <<urlFile, hashFile, swVars, swHist, cmdLabel, cmdUrl, cmdUrls,
                 cmdHashes, cmdHtmls, touched, lastText, ops, crashed, raced, page>>

add ==
  \/ \E label \in Labels, url \in URLs : AddStart(label, url)
  \/ AddFetch \/ AddSaveUrl \/ AddSaveHash \/ AddSaveHtml

\* remove, lines 158-168: the check of the label; no await before the saves
RemoveStart(label) ==
  /\ cmdPc = "idle" /\ ~SweepSync
  /\ LET urls == load_json(urlFile, EmptyUrls)
     IN IF ~HasLabel(urls, label)
          THEN /\ reply' = "Label not found."
               /\ cmdPc' = "reply"
               /\ cmdLabel' = label /\ cmdUrls' = urls
               /\ UNCHANGED <<cmdUrl, cmdHashes, cmdHtmls, touched, raced,
                              reg, lastText, fresh, swFirst, ops>>
          ELSE /\ ops < MaxOps
               /\ ops' = ops + 1
               /\ cmdUrls' = DelUrl(urls, label)
               /\ cmdHashes' = [load_json(hashFile, EmptyMap) EXCEPT ![label] = None]
               /\ cmdHtmls' = [load_json(htmlFile, EmptyMap) EXCEPT ![label] = None]
               /\ cmdLabel' = label
               /\ cmdPc' = "rm_save_url"
               /\ touched' = Touch(label)
               /\ raced' = (raced \/ swPc # "idle")
               /\ reg' = [reg EXCEPT ![label] = "removing"]
               /\ lastText' = [lastText EXCEPT ![label] = None]
               /\ fresh' = [fresh EXCEPT ![label] = None]
               /\ swFirst' = [swFirst EXCEPT ![label] = None]
               /\ UNCHANGED <<reply, cmdUrl>>
  /\ UNCHANGED <<durable, swVars, outcome, startHash, startHtml, attempted,
                 notified, repeated, recorded, unalerted, crashed, page>>

\* remove, line 170
RemoveSaveUrl ==
  /\ cmdPc = "rm_save_url"
  /\ urlFile' = save_json(cmdUrls)
  /\ cmdPc' = "rm_save_hash"
  /\ UNCHANGED <<hashFile, htmlFile, swVars, swHist, cmdLabel, cmdUrl,
                 cmdUrls, cmdHashes, cmdHtmls, reply, touched, reg, lastText,
                 fresh, ops, crashed, raced, page>>

\* remove, line 171
RemoveSaveHash ==
  /\ cmdPc = "rm_save_hash"
  /\ hashFile' = save_json(cmdHashes)
  /\ cmdPc' = "rm_save_html"
  /\ UNCHANGED <<urlFile, htmlFile, swVars, swHist, cmdLabel, cmdUrl,
                 cmdUrls, cmdHashes, cmdHtmls, reply, touched, reg, lastText,
                 fresh, ops, crashed, raced, page>>

\* remove, lines 172-174
RemoveSaveHtml ==
  /\ cmdPc = "rm_save_html"
  /\ htmlFile' = save_json(cmdHtmls)
  /\ reply' = "Stopped monitoring"
  /\ reg' = [reg EXCEPT ![cmdLabel] = "removed"]
  /\ cmdPc' = "reply"
  /\ UNCHANGED <<urlFile, hashFile, swVars, swHist, cmdLabel, cmdUrl, cmdUrls,
                 cmdHashes, cmdHtmls, touched, lastText, fresh, ops, crashed, raced, page>>

remove ==
  \/ \E label \in Labels : RemoveStart(label)
  \/ RemoveSaveUrl \/ RemoveSaveHash \/ RemoveSaveHtml

\* the handler's reply_text is sent and the handler returns
CmdReturn ==
  /\ cmdPc = "reply"
  /\ cmdPc' = "idle" /\ reply' = None
  /\ CmdLocalsGone
  /\ UNCHANGED <<durable, swVars, swHist, touched, reg, lastText, fresh,
                 ops, crashed, raced, page>>

\* ---------------------------------------------------------------- crash
\* The process dies and is started again (lines 190-209 touch no file but
\* the diffs directory): every coroutine and its locals are gone.
Restarted ==
  /\ ops < MaxOps
  /\ swPc # "idle" \/ cmdPc # "idle"
  /\ ops' = ops + 1
  /\ crashed' = TRUE
  /\ swPc' = "idle" /\ SweepLocalsGone
  /\ cmdPc' = "idle" /\ reply' = None /\ CmdLocalsGone
  /\ UNCHANGED <<recorded, unalerted, reg, lastText, fresh, raced, page>>

\* a crash between two statements
Crash ==
  /\ Restarted
  /\ UNCHANGED durable

\* a crash inside save_json, lines 35-36: open(filename, 'w') has truncated
\* the file and json.dump has not finished
CrashInSave ==
  /\ Restarted
  /\ \/ /\ cmdPc \in {"add_save_url", "rm_save_url"}
        /\ urlFile' = Corrupt(EmptyUrls)
        /\ UNCHANGED <<hashFile, htmlFile>>
     \/ /\ swPc = "save_hash" \/ cmdPc \in {"add_save_hash", "rm_save_hash"}
        /\ hashFile' = Corrupt(EmptyMap)
        /\ UNCHANGED <<urlFile, htmlFile>>
     \/ /\ swPc = "save_html" \/ cmdPc \in {"add_save_html", "rm_save_html"}
        /\ htmlFile' = Corrupt(EmptyMap)
        /\ UNCHANGED <<urlFile, hashFile>>

\* ------------------------------------------------------- specifications
Next == check_all_urls \/ add \/ remove \/ CmdUsage \/ CmdReturn

Spec == Init /\ [][Next]_vars

NextCrash == Next \/ Crash \/ CrashInSave

SpecCrash == Init /\ [][NextCrash]_vars

\* The sweeps of a bot left to itself.  The files are as `/add a u1`, or
\* that and `/add b u2`, left them, each add having fetched some page; from
\* then on the sites serve one page, every fetch gets it and every
\* send_message and diff write succeeds; no command comes in.
FilesAfterAdds(pa, pb) ==
  /\ urlFile = File(IF pb = NoPage
                      THEN SetUrl(EmptyUrls, "a", "u1")
                      ELSE SetUrl(SetUrl(EmptyUrls, "a", "u1"), "b", "u2"))
  /\ hashFile = File([l \in Labels |->
                        IF l = "a" THEN sha256(pa.text)
                        ELSE IF pb = NoPage THEN None ELSE sha256(pb.text)])
  /\ htmlFile = File([l \in Labels |->
                        IF l = "a" THEN pa.html
                        ELSE IF pb = NoPage THEN None ELSE pb.html])
  /\ reg = [l \in Labels |-> IF l = "a" \/ pb # NoPage THEN "added" ELSE "none"]
  /\ lastText = [l \in Labels |->
                   IF l = "a" THEN pa.text
                   ELSE IF pb = NoPage THEN None ELSE pb.text]
  /\ fresh = lastText

InitLive ==
  /\ \E pa \in Pages, pb \in Pages \cup {NoPage} : FilesAfterAdds(pa, pb)
  /\ page \in Pages
  /\ swPc = "idle" /\ swUrls = EmptyUrls /\ swIdx = 1
  /\ swHashes = EmptyMap /\ swHtmls = EmptyMap
  /\ cmdPc = "idle" /\ cmdLabel = None /\ cmdUrl = None
  /\ cmdUrls = EmptyUrls /\ cmdHashes = EmptyMap /\ cmdHtmls = EmptyMap
  /\ reply = None
  /\ outcome = NoOutcome /\ startHash = EmptyMap /\ startHtml = EmptyMap
  /\ attempted = {} /\ notified = NoNotes /\ repeated = {}
  /\ touched = {} /\ swFirst = EmptyMap /\ recorded = {}
  /\ unalerted = {}
  /\ crashed = FALSE /\ raced = FALSE /\ ops = 0

NextLive ==
  \/ SweepAgain \/ SweepFetch \/ SweepSendOk
  \/ SweepSaveHash \/ SweepSaveHtml \/ SweepReturn

\* the event loop runs every callback that is ready, and the JobQueue fires
\* at every interval
SpecLive == InitLive /\ [][NextLive]_vars /\ WF_vars(NextLive)

\* ---------------------------------------------------------------- claims
\* what a handler started now would read for label l
StoredHash(l) == load_json(hashFile, EmptyMap)[l]
StoredHtml(l) == load_json(htmlFile, EmptyMap)[l]
Registered(l) == HasLabel(load_json(urlFile, EmptyUrls), l)

SweepOver == swPc \in {"done", "aborted"}

\* the digest of what this sweep fetched for l
FetchedHash(l) == IF outcome[l] = "empty" THEN sha256("") ELSE swHashes[l]

\* C1. Change detection: when a sweep has run to its end, every label whose
\* stored fingerprint was F and whose fetch returned content (an empty body
\* included) with another digest F' is stored with F' and was notified
\* exactly once.  The code does not do this.
C1_ChangeDetection ==
  swPc = "done" =>
    \A l \in Labels :
      ( /\ startHash[l] # None
        /\ l \notin touched
        /\ outcome[l] \in {"changed", "empty"}
        /\ FetchedHash(l) # startHash[l] )
      => /\ StoredHash(l) = FetchedHash(l)
         /\ notified[l] = 1

\* C2. No baseline, no notification: a sweep that fetches a registered label
\* with no stored fingerprint sends nothing for it and, once over, has stored
\* the fetched digest as its baseline.  The code does not do this.
C2_NoBaselineNeverNotifies ==
  \A l \in Labels :
    (outcome[l] = "nobase" /\ l \notin touched)
    => /\ l \notin attempted
       /\ notified[l] = 0
       /\ SweepOver => StoredHash(l) = swHashes[l]

\* C3. Idempotence: a fetch that returns the text the previous successful
\* fetch of the label returned sends no notification, and the sweep leaves
\* the one fingerprint of that text stored.  The code does not do this.
C3_Idempotence ==
  \A l \in repeated :
    /\ l \notin attempted
    /\ notified[l] = 0
    /\ (SweepOver /\ l \notin touched) => StoredHash(l) = sha256(lastText[l])

\* C4. Failure isolation: when a sweep is over, every target of its snapshot
\* of the registry has been fetched, whatever failed for the targets before
\* it.  The code does not do this.
C4_FailureIsolation ==
  SweepOver =>
    \A i \in 1..Len(swUrls) : outcome[swUrls[i].label] # "none"

\* C5. A failed notification does not undo the update: when a sweep is over,
\* a label whose change it detected and whose send_message failed is stored
\* with the new fingerprint.  The code does not do this.
C5_FailedSendKeepsUpdate ==
  SweepOver =>
    \A l \in Labels :
      ( /\ outcome[l] = "changed"
        /\ l \notin touched
        /\ l \in attempted
        /\ notified[l] = 0 )
      => StoredHash(l) = swHashes[l]

\* C6. At least once: in every state, crashes at any step included, no sweep
\* has written the new fingerprint of a change to url_hashes.json without
\* having called send_message for that change before.
C6_AtLeastOnce ==
  /\ unalerted = {}
  /\ swPc \in {"save_html", "done"} =>
       \A l \in Labels :
         (outcome[l] \in {"nobase", "changed"} /\ StoredHash(l) = swHashes[l])
         => l \in attempted

\* a sweep notified a change and wrote its fingerprint, then the process
\* crashed and was started again
C6_Witness ==
  /\ crashed /\ swPc = "idle"
  /\ \E l \in recorded : StoredHash(l) # None

C8_RemovedHasNoRecord ==
  \A l \in Labels :
    reg[l] = "removed" => StoredHash(l) = None /\ StoredHtml(l) = None

\* C9. A baseline survives: a label whose add has completed, and that has
\* not been removed since, has a fingerprint stored.  The code does not keep
\* this when a sweep is in flight.
C9_AddedHasRecord ==
  \A l \in Labels :
    reg[l] \in {"added", "readded"} => StoredHash(l) # None

\* C10. Label reuse: a label added, removed and added again gets the digest
\* of the second add's fetch as its baseline, and the first sweep started
\* after that add sends nothing for it when its fetch returns the text the
\* add fetched.  The code does not do this.
C10_ReAddFreshBaseline ==
  /\ (cmdPc = "reply" /\ reply = "Now tracking" /\ reg[cmdLabel] = "readded")
       => StoredHash(cmdLabel) = sha256(lastText[cmdLabel])
  /\ \A l \in Labels :
       ( /\ reg[l] = "readded"
         /\ swFirst[l] # None
         /\ outcome[l] \in {"nobase", "same", "changed"}
         /\ lastText[l] = swFirst[l] )
       => l \notin attempted /\ notified[l] = 0

\* C11. Duplicate label rejection: an add whose label is in the registry
\* when the command starts is answered "Label already exists." and writes
\* nothing; the registry still maps the label to its original url, and
\* url_hashes.json and url_html_snapshots.json are as they were.
C11_DuplicateLabelRejected ==
  [][ (cmdPc = "idle" /\ cmdPc' # "idle" /\ cmdUrl' # None /\ Registered(cmdLabel'))
      => /\ cmdPc' = "reply" /\ reply' = "Label already exists."
         /\ urlFile' = urlFile /\ hashFile' = hashFile /\ htmlFile' = htmlFile
         /\ \E i \in 1..Len(cmdUrls') :
              /\ cmdUrls'[i].label = cmdLabel'
              /\ load_json(urlFile', EmptyUrls)[i] = cmdUrls'[i] ]_vars

\* an add of a registered label under another url than its own has been
\* rejected
C11_Witness ==
  /\ cmdPc = "reply" /\ reply = "Label already exists."
  /\ Registered(cmdLabel)
  /\ \E i \in 1..Len(cmdUrls) :
       cmdUrls[i].label = cmdLabel /\ cmdUrls[i].url # cmdUrl
  /\ StoredHash(cmdLabel) # None

\* the process dies and is started again in this step
CrashStep ==
  /\ swPc # "idle" \/ cmdPc # "idle"
  /\ swPc' = "idle" /\ cmdPc' = "idle"
  /\ crashed' /\ ops' = ops + 1

\* the dict the save_json(HASH_FILE, ...) at hand is writing, the file's own
\* content when no handler is at that call
HashesBeingSaved ==
  IF swPc = "save_hash" THEN swHashes
  ELSE IF cmdPc \in {"add_save_hash", "rm_save_hash"} THEN cmdHashes
  ELSE load_json(hashFile, EmptyMap)

\* C12. Crash-atomic persistence: whenever the process crashes, during a
\* write of url_hashes.json or at any other point, what is read from the
\* file on restart is the complete mapping read from it before the crash or
\* the complete mapping that was being written, never the empty mapping of
\* an unparseable file.  The code does not do this.
C12_CrashAtomicStore ==
  [][ CrashStep
      => load_json(hashFile', EmptyMap)
           \in {load_json(hashFile, EmptyMap), HashesBeingSaved} ]_vars

\* a handler reads url_hashes.json in this step
LoadsHashFile ==
  \/ swPc = "idle" /\ swPc' # "idle"
  \/ cmdPc = "add_fetch" /\ cmdPc' = "add_save_url"
  \/ cmdPc = "idle" /\ cmdPc' = "rm_save_url"

\* C13. Corrupt store recovery: a handler that loads an unparseable
\* url_hashes.json goes on with an empty store, and the load reports a
\* warning.  The code goes on, but reports nothing.
C13_CorruptStoreRecovery ==
  [][ (LoadsHashFile /\ ~hashFile.ok)
      => /\ load_json(hashFile, EmptyMap) = EmptyMap
         /\ swPc' # "idle" => swHashes' = EmptyMap
         /\ load_json_prints(hashFile) # {} ]_vars

SweepPipeline(l) ==
  /\ swPc \in {"fetch", "send", "save_hash"}
  /\ \E i \in 1..Len(swUrls) : i <= swIdx /\ swUrls[i].label = l

\* an add has asked for label l's page and has not yet written
\* url_hashes.json (line 147)
AddPipeline(l) ==
  /\ cmdPc \in {"add_fetch", "add_save_url", "add_save_hash"}
  /\ cmdLabel = l

\* C15. Per-label mutual exclusion: no label has a sweep pipeline and an add
\* pipeline (fetch up to the write of url_hashes.json) in flight at once.
\* The code does not do this.
C15_OnePipelinePerLabel ==
  \A l \in Labels : ~(SweepPipeline(l) /\ AddPipeline(l))

\* C16. Order of effects: when send_message is called for a change, and as
\* long as the sweep runs after it, the new fingerprint of that label is
\* already in url_hashes.json.  The code does not do this.
C16_StoreBeforeNotify ==
  \A l \in attempted \ touched : StoredHash(l) = swHashes[l]

\* label l's stored fingerprint and stored snapshot are of one page, or both
\* are absent
SameFetch(l) ==
  \/ StoredHash(l) = None /\ StoredHtml(l) = None
  \/ \E pg \in Pages : StoredHash(l) = sha256(pg.text) /\ StoredHtml(l) = pg.html

\* C17. Snapshot and fingerprint change together: in the files a crash
\* leaves behind, at any step of a sweep or of an add, every label's
\* fingerprint and snapshot come from the same fetch (files a crash left
\* unparseable are C12's case, a crash inside a remove is not the claim's:
\* neither is counted here).  The code does not do this.
C17_SnapshotWithFingerprint ==
  [][ ( /\ CrashStep
        /\ cmdPc \in {"idle", "add_fetch", "add_save_url", "add_save_hash",
                      "add_save_html", "reply"}
        /\ hashFile'.ok /\ htmlFile'.ok )
      => \A l \in Labels : SameFetch(l)' ]_vars

\* C18. No alert after removal: the sweep calls send_message for a label
\* only while the label is not removed: after remove has completed, and until
\* the label is added again, no sweep notifies it.  The code does not do this.
C18_NoAlertAfterRemove ==
  [][ (swPc = "fetch" /\ swPc' = "send") => reg[CurLabel] # "removed" ]_vars

\* no handler is running, and no command has written the files while a
\* sweep was running
Quiet == swPc = "idle" /\ cmdPc = "idle" /\ ~raced

\* the add at its "Couldn't fetch page." has not registered its label
FailedAddNotRegistered ==
  (cmdPc = "reply" /\ reply = "Couldn't fetch page.") => ~Registered(cmdLabel)

\* the registered labels are the labels with a fingerprint
RegisteredIffStored ==
  \A l \in Labels : Registered(l) <=> StoredHash(l) # None

\* C20. add is all-or-nothing on fetch failure: no step of an add up to
\* its "Couldn't fetch page." writes a file, and the label is not registered
\* when that reply is given; and whenever no handler is running, after
\* commands that met no sweep in flight, the registered labels are the labels
\* with a fingerprint in url_hashes.json.
C20_AddAllOrNothing ==
  [][ /\ ( /\ \/ cmdPc = "idle" /\ cmdPc' \in {"add_fetch", "reply"}
              \/ cmdPc = "add_fetch" /\ cmdPc' = "reply"
           /\ cmdUrl' # None )
         => urlFile' = urlFile /\ hashFile' = hashFile /\ htmlFile' = htmlFile
      /\ FailedAddNotRegistered'
      /\ Quiet' => RegisteredIffStored'
    ]_vars

\* an add whose fetch failed has been answered, with another label
\* registered and stored, and no sweep met
C20_Witness ==
  /\ cmdPc = "reply" /\ reply = "Couldn't fetch page." /\ ~raced
  /\ ~Registered(cmdLabel) /\ StoredHash(cmdLabel) = None
  /\ \E l \in Labels : Registered(l) /\ StoredHash(l) # None /\ reg[l] = "readded"

\* C19. Persistent changes are eventually reported: with the label
\* registered for good, the site serving from now on one page whose digest
\* is not the stored fingerprint, sweeps run at every interval and every
\* fetch and send succeeding, a sweep eventually has sent the notification
\* of the label and url_hashes.json holds the digest of that page.  The code
\* does not do this.
C19_PersistentChangeReported ==
  \A l \in Labels :
    (page # NoPage /\ Registered(l) /\ StoredHash(l) # sha256(page.text))
    ~> (notified[l] > 0 /\ StoredHash(l) = sha256(page.text))

====
